---- MODULE Spec2Model ----
(***************************************************************************)
(* Morphing sphere: the composition root (animate loop, pointermove and    *)
(* morph-toggle listeners), ParticleInteractionService, ParticleSphere and *)
(* mathUtils, as a state machine.                                          *)
(*                                                                         *)
(* Reals are fixed-point integers: lengths, timers, progress values and    *)
(* angles are in thousandths (ONE = 1.0), colour channels in               *)
(* ten-thousandths.  Products are rescaled with RoundDiv (round to         *)
(* nearest), so every quantity is within about one thousandth of the       *)
(* double the program computes.  A vector carries a flag, nan, that is set  *)
(* when its components are NaN.                                            *)
(***************************************************************************)
EXTENDS Integers, Sequences, FiniteSets, TLC

VARIABLES
  \* composition root (main.js)
  pointer, lastPointer, lastPointerEvent, enableMorph, rotationY, scale, time,
  started,
  \* ParticleInteractionService
  morphLerp, morphTarget,
  \* ParticleSphere
  DOT_COUNT, RADIUS, originalPositions, spreadOffsets, spreadTimers,
  spreadKickT, spreadKickDir, spreadKickStart,
  \* render buffers (points.geometry.attributes.*.array)
  positions, colorArr,
  \* observations of the last update(): locals of spreadDots, the arguments
  \* animate passed and the points that were Held when it began, kept so that
  \* properties can speak about them
  touchedThisFrame, kicksThisStep, zoneThisStep, zeroDistBranch, bufferEases,
  args, prevArgs, sampleUses, moves, heldAtStart, boundaryDist

vars == <<pointer, lastPointer, lastPointerEvent, enableMorph, rotationY, scale,
          time, started, morphLerp, morphTarget, DOT_COUNT, RADIUS, originalPositions,
          spreadOffsets, spreadTimers, spreadKickT, spreadKickDir,
          spreadKickStart, positions, colorArr, touchedThisFrame,
          kicksThisStep, zoneThisStep, zeroDistBranch, bufferEases, args,
          prevArgs, sampleUses, moves, heldAtStart, boundaryDist>>

-----------------------------------------------------------------------------
\* Bounds of the model

\* number of points of the field the service is run on
DotCount == 3
\* number of pointermove events delivered in one behaviour
MaxMoves == 2
\* number of quarter turns the sphere's rotation advances in one behaviour
MaxTurns == 1
\* largest dotCount handed to the ParticleSphere constructor
MaxInitCount == 12

-----------------------------------------------------------------------------
\* Program constants, in fixed point

ONE == 1000
KICK_STEP == 35
TIMER_STEP == 17
HOLD_TIME == 400
RETURN_RATE == 30
BUFFER_RATE == 180
BUFFER_BAND == 180
SURFACE_EPS == 1
CURSOR_FACTOR == 380
MORPH_RATE == 50
MAX_KICKS_PER_STEP == 2
steps == 12
FORCE_DIVISOR == 5
KICK_THRESHOLD == 500
FORCE_OFFSET == 1000
SPREAD_GAIN == 700
FALLBACK_DISTANCE == 5000
CAMERA_Z == 5000
DEFAULT_RADIUS == 2000
GOLDEN_MICRO == 1618034

\* a pointer sample {x, y} of main.js, or null
NULL == [null |-> TRUE, x |-> 0, y |-> 0]

Sample(px, py) == [null |-> FALSE, x |-> px, y |-> py]
\* a frame timestamp: undefined (NaN in arithmetic) or a number of milliseconds
Undefined == [nan |-> TRUE, ms |-> 0]

At(ms) == [nan |-> FALSE, ms |-> ms]

PI == 3142
TWO_PI == 6283
HALF_PI == 1571

-----------------------------------------------------------------------------
\* Fixed-point arithmetic

Abs(a) == IF a < 0 THEN -a ELSE a

Max(a, b) == IF a > b THEN a ELSE b

Min(a, b) == IF a < b THEN a ELSE b

\* a / b rounded to the nearest integer (b > 0)
RoundDiv(a, b) ==
  IF a >= 0 THEN (a + b \div 2) \div b ELSE -(((-a) + b \div 2) \div b)

\* a * b on fixed-point operands
Mul(a, b) == RoundDiv(a * b, ONE)

RECURSIVE SqrtSearch(_, _, _)
SqrtSearch(n, lo, hi) ==
  IF lo >= hi THEN lo
  ELSE LET mid == (lo + hi + 1) \div 2
       IN IF mid * mid <= n THEN SqrtSearch(n, mid, hi)
          ELSE SqrtSearch(n, lo, mid - 1)

\* Math.sqrt on integers: the nearest integer to the square root of n
Sqrt(n) ==
  LET r == SqrtSearch(n, 0, IF n < 1048576 THEN 1024
                            ELSE IF n < 16777216 THEN 4096 ELSE 46340)
  IN IF n - r * r > r THEN r + 1 ELSE r

\* Math.sqrt on a fixed-point operand
SqrtFix(a) == Sqrt(a * ONE)

-----------------------------------------------------------------------------
\* Math.sin, Math.cos, Math.atan2, Math.acos, Math.pow on fixed-point operands

\* sin on [0, pi] (Bhaskara's rational approximation, exact at 0, pi/2, pi)
SinHalf(y) ==
  LET p == y * (PI - y)
  IN RoundDiv(160 * p, (5 * PI * PI - 4 * p) \div 100)

Sin(x) ==
  LET y == x % TWO_PI
  IN IF y <= PI THEN SinHalf(y) ELSE -SinHalf(y - PI)

Cos(x) == Sin(x + HALF_PI)

\* atan on [0, 1]
AtanUnit(r) == Mul(r, 785 + Mul(273, ONE - r))

Atan2(y, x) ==
  IF x = 0 /\ y = 0 THEN 0
  ELSE LET ax == Abs(x)
           ay == Abs(y)
           a == IF ax >= ay THEN AtanUnit(RoundDiv(ay * ONE, ax))
                ELSE HALF_PI - AtanUnit(RoundDiv(ax * ONE, ay))
           b == IF x < 0 THEN PI - a ELSE a
       IN IF y < 0 THEN -b ELSE b

Acos(u) == Atan2(SqrtFix(ONE - Mul(u, u)), u)

\* x^1.15 for x >= 0, interpolated between tabulated values of the power
PowKnots ==
  << <<0, 0>>, <<250, 203>>, <<500, 451>>, <<1000, 1000>>, <<2000, 2219>>,
     <<4000, 4925>>, <<8000, 10928>>, <<16000, 24251>>, <<32000, 53817>>,
     <<64000, 119428>>, <<128000, 265030>>, <<256000, 588134>>,
     <<512000, 1305144>> >>

RECURSIVE PowSeg(_, _)
PowSeg(x, k) ==
  IF k = Len(PowKnots) - 1 \/ x <= PowKnots[k + 1][1]
  THEN LET a == PowKnots[k]
           b == PowKnots[k + 1]
           slope == RoundDiv((b[2] - a[2]) * ONE, b[1] - a[1])
       IN a[2] + Mul(x - a[1], slope)
  ELSE PowSeg(x, k + 1)

Pow115(x) == IF x <= 0 THEN 0 ELSE PowSeg(x, 1)

-----------------------------------------------------------------------------
\* THREE.Vector3 / THREE.Quaternion

Vec(a, b, c) == [x |-> a, y |-> b, z |-> c, nan |-> FALSE]

ZeroVec == Vec(0, 0, 0)

\* a vector whose three components are NaN
NaNVec == [x |-> 0, y |-> 0, z |-> 0, nan |-> TRUE]

VAdd(a, b) == Vec(a.x + b.x, a.y + b.y, a.z + b.z)

VSub(a, b) == Vec(a.x - b.x, a.y - b.y, a.z - b.z)

Dot(a, b) == a.x * b.x + a.y * b.y + a.z * b.z

\* Vector3.length
Length(v) == Sqrt(Dot(v, v))

\* Vector3.multiplyScalar with a fixed-point scalar
MultiplyScalar(v, k) == Vec(Mul(v.x, k), Mul(v.y, k), Mul(v.z, k))

\* Vector3.normalize: divideScalar(length() || 1); components in thousandths
Normalize(v) ==
  LET len == Length(v)
      d == IF len = 0 THEN 1 ELSE len
  IN Vec(RoundDiv(v.x * ONE, d), RoundDiv(v.y * ONE, d), RoundDiv(v.z * ONE, d))

\* Vector3.applyQuaternion for the quaternion of Euler (0, rotationY, 0):
\* q counts quarter turns about the y axis
ApplyQuaternion(v, q) ==
  CASE q % 4 = 0 -> v
    [] q % 4 = 1 -> Vec(v.z, v.y, -v.x)
    [] q % 4 = 2 -> Vec(-v.x, v.y, -v.z)
    [] OTHER -> Vec(-v.z, v.y, v.x)

\* Quaternion.invert
Invert(q) == (4 - (q % 4)) % 4

-----------------------------------------------------------------------------
\* mathUtils.js

lerpVec3(a, b, num, den) ==
  Vec(a.x + RoundDiv((b.x - a.x) * num, den),
      a.y + RoundDiv((b.y - a.y) * num, den),
      a.z + RoundDiv((b.z - a.z) * num, den))

easeInOutSine(t) == RoundDiv(-(Cos(Mul(PI, t)) - ONE), 2)

clamp(val, min, max) == Max(min, Min(max, val))

-----------------------------------------------------------------------------
\* Host environment: the viewport, the camera of ThreeSceneController, the
\* pointer samples the browser delivers and the timestamps it hands to animate

Viewport == [innerWidth |-> 1000, innerHeight |-> 1000]

\* tan(fov / 2) of PerspectiveCamera(75, ...)
TAN_HALF_FOV == 767

CameraPosition == Vec(0, 0, CAMERA_Z)

\* clientX/clientY of the pointermove events
Pointers ==
  { Sample(500, 500), Sample(504, 500), Sample(744, 500), Sample(900, 500) }

\* requestAnimationFrame timestamps (milliseconds)
Times == {At(100 * ONE), At(450 * ONE)}

Points == 0 .. (DOT_COUNT - 1)

\* The lattice points of the sphere of radius DEFAULT_RADIUS that make up the
\* field the service is run on: a patch around the point facing the camera
Field ==
  << Vec(0, 0, 2000), Vec(560, 0, 1920), Vec(-560, 0, 1920),
     Vec(704, 0, 1872), Vec(1200, 0, 1600) >>

-----------------------------------------------------------------------------
\* ParticleInteractionService.animateSpreadReturn

AdvanceKick_Mutant(t) == t + KICK_STEP

\* lines 88-89: advance the kick and clamp it
AdvanceKick(t) == IF t + KICK_STEP > ONE THEN ONE ELSE t + KICK_STEP

\* lines 97-98: count the hold timer down and floor it
CountDown(t) == IF t - TIMER_STEP < 0 THEN 0 ELSE t - TIMER_STEP

ReturnHome_Mutant(c) == c - RoundDiv((0 - c) * RETURN_RATE, ONE)

\* lines 101-103: lerp one offset component back to zero
ReturnHome(c) == c + RoundDiv((0 - c) * RETURN_RATE, ONE)

KickOffset(start, dir, t) ==
  LET ease == easeInOutSine(t)
  IN Vec(start.x + Mul(dir.x, ease), start.y + Mul(dir.y, ease),
         start.z + Mul(dir.z, ease))

\* the arrays of the field after animateSpreadReturn
animateSpreadReturn ==
  [ spreadKickT |->
      [i \in Points |->
         IF spreadKickT[i] < ONE THEN AdvanceKick(spreadKickT[i])
         ELSE spreadKickT[i]],
    spreadOffsets |->
      [i \in Points |->
         IF spreadKickT[i] < ONE
         THEN KickOffset(spreadKickStart[i], spreadKickDir[i],
                         AdvanceKick(spreadKickT[i]))
         ELSE IF spreadTimers[i] > 0 THEN spreadOffsets[i]
         ELSE Vec(ReturnHome(spreadOffsets[i].x), ReturnHome(spreadOffsets[i].y),
                  ReturnHome(spreadOffsets[i].z))],
    spreadTimers |->
      [i \in Points |->
         IF spreadKickT[i] < ONE THEN spreadTimers[i]
         ELSE IF spreadTimers[i] > 0 THEN CountDown(spreadTimers[i])
         ELSE spreadTimers[i]] ]

-----------------------------------------------------------------------------
\* ParticleInteractionService.spreadDots

\* Raycaster.setFromCamera for the perspective camera looking down -z
RayDirection(p) ==
  LET ndcX == RoundDiv(p.x * 2 * ONE, Viewport.innerWidth) - ONE
      ndcY == -RoundDiv(p.y * 2 * ONE, Viewport.innerHeight) + ONE
  IN Normalize(Vec(RoundDiv(ndcX * TAN_HALF_FOV * Viewport.innerWidth,
                            ONE * Viewport.innerHeight),
                   Mul(ndcY, TAN_HALF_FOV), -ONE))

\* lines 116-138 (and 146-165): the pointer sample resolved to a world point
CursorWorld(p) ==
  LET rayOrigin == CameraPosition
      rayDir == RayDirection(p)
      a == RoundDiv(Dot(rayDir, rayDir), ONE)
      b == 2 * RoundDiv(Dot(rayOrigin, rayDir), ONE)
      c == RoundDiv(Dot(rayOrigin, rayOrigin), ONE) - Mul(RADIUS, RADIUS)
      discriminant == Mul(b, b) - 4 * Mul(a, c)
  IN IF discriminant >= 0
     THEN LET t == RoundDiv((-b - SqrtFix(discriminant)) * ONE, 2 * a)
          IN VAdd(rayOrigin, MultiplyScalar(rayDir, t))
     ELSE LET camToPointer ==
                VAdd(rayOrigin, MultiplyScalar(rayDir, FALLBACK_DISTANCE))
              dir == Normalize(VSub(camToPointer, CameraPosition))
          IN VAdd(CameraPosition, MultiplyScalar(dir, RADIUS))

CURSOR_RADIUS == Mul(RADIUS, CURSOR_FACTOR)

Force_Mutant(ptr, last) ==
  LET dx == ptr.x - last.x
      dy == ptr.y - last.y
      pointerSpeed == Sqrt((dx * dx + dy * dy) * 100) * 100
  IN RoundDiv(pointerSpeed, FORCE_DIVISOR)

\* lines 194-197: force from the pointer's screen-space delta
Force(ptr, last) ==
  LET dx == IF last # NULL THEN ptr.x - last.x ELSE 0
      dy == IF last # NULL THEN ptr.y - last.y ELSE 0
      pointerSpeed == Sqrt((dx * dx + dy * dy) * 100) * 100
  IN RoundDiv(pointerSpeed, FORCE_DIVISOR)

\* line 200
SpreadAmt(force) ==
  clamp(Mul(SPREAD_GAIN, Pow115(Max(0, force - FORCE_OFFSET))), 0,
        Mul(RADIUS, SPREAD_GAIN))

\* Distances are compared as the code compares them, on their squares: for
\* dist = sqrt(distSq), dist < r exactly when distSq < r * r

InExclusionZone_Mutant(distSq) ==
  distSq > 0 /\ distSq < CURSOR_RADIUS * CURSOR_RADIUS

\* line 189: dist < CURSOR_RADIUS
InExclusionZone(distSq) == distSq < CURSOR_RADIUS * CURSOR_RADIUS

\* line 220: dist < CURSOR_RADIUS + 0.18
InSoftBuffer(distSq) ==
  distSq < (CURSOR_RADIUS + BUFFER_BAND) * (CURSOR_RADIUS + BUFFER_BAND)

MayKick_Mutant(force, kicks) ==
  force > KICK_THRESHOLD /\ kicks <= MAX_KICKS_PER_STEP

\* line 199
MayKick(force, kicks) == force > KICK_THRESHOLD /\ kicks < MAX_KICKS_PER_STEP

SkipKicked_Mutant(kickT) == kickT < 0

\* line 180
SkipKicked(kickT) == kickT < ONE

\* lines 223-225: ease one offset component toward the buffer target
EaseToward(off, target, orig) ==
  off + RoundDiv((target - (orig + off)) * BUFFER_RATE, ONE)

\* lines 181-228: the body of the inner loop for a point i that is not skipped
DotBody(st, i, interpCursor, cursorWorld, sphereQuat, force) ==
  LET orig == originalPositions[i]
      invQuat == Invert(sphereQuat)
      dotWorld == ApplyQuaternion(orig, sphereQuat)
      toCursor == VSub(dotWorld, interpCursor)
      distSq == Dot(toCursor, toCursor)
      radial == Normalize(toCursor)
      exclusionSurfaceWorld ==
        VAdd(interpCursor, MultiplyScalar(radial, CURSOR_RADIUS + SURFACE_EPS))
      exclusionSurfaceLocal == ApplyQuaternion(exclusionSurfaceWorld, invQuat)
      snap == VSub(exclusionSurfaceLocal, orig)
      target == VAdd(cursorWorld, MultiplyScalar(radial, CURSOR_RADIUS + SURFACE_EPS))
      targetLocal == ApplyQuaternion(target, invQuat)
      off == st.spreadOffsets[i]
      branch == IF InExclusionZone(distSq) THEN "exclusion"
                ELSE IF InSoftBuffer(distSq) THEN "buffer" ELSE "none"
      zero == IF distSq = 0
              THEN [st.zeroDistBranch EXCEPT ![i] = @ \cup {branch}]
              ELSE st.zeroDistBranch
      \* where the point is displaced to, seen from this sub-step's cursor
      displaced == ApplyQuaternion(VAdd(orig, snap), sphereQuat)
      gap == Length(VSub(displaced, interpCursor))
  IN IF InExclusionZone(distSq)
     THEN IF MayKick(force, st.kicks)
          THEN [st EXCEPT
                  !.spreadKickStart[i] = snap,
                  !.spreadKickT[i] = 0,
                  !.spreadKickDir[i] =
                     ApplyQuaternion(MultiplyScalar(radial, SpreadAmt(force)),
                                     invQuat),
                  !.spreadOffsets[i] = snap,
                  !.kicks = @ + 1,
                  !.zone = @ + 1,
                  !.touched[i] = TRUE,
                  !.zeroDistBranch = zero,
                  !.boundaryDist[i] = @ \cup {gap}]
          ELSE [st EXCEPT
                  !.spreadOffsets[i] = snap,
                  !.zone = @ + 1,
                  !.touched[i] = TRUE,
                  !.zeroDistBranch = zero,
                  !.boundaryDist[i] = @ \cup {gap}]
     ELSE IF InSoftBuffer(distSq)
     THEN [st EXCEPT
             !.spreadOffsets[i] =
                Vec(EaseToward(off.x, targetLocal.x, orig.x),
                    EaseToward(off.y, targetLocal.y, orig.y),
                    EaseToward(off.z, targetLocal.z, orig.z)),
             !.spreadTimers[i] = HOLD_TIME,
             !.touched[i] = TRUE,
             !.bufferEases[i] = @ + 1,
             !.zeroDistBranch = zero]
     ELSE IF distSq = 0 THEN [st EXCEPT !.zeroDistBranch = zero]
     ELSE st

\* lines 179-229: the inner loop, points i .. DOT_COUNT - 1 in index order
RECURSIVE DotLoop(_, _, _, _, _, _)
DotLoop(st, i, interpCursor, cursorWorld, sphereQuat, force) ==
  IF i >= DOT_COUNT THEN st
  ELSE IF SkipKicked(st.spreadKickT[i])
  THEN DotLoop(st, i + 1, interpCursor, cursorWorld, sphereQuat, force)
  ELSE DotLoop(DotBody(st, i, interpCursor, cursorWorld, sphereQuat, force),
               i + 1, interpCursor, cursorWorld, sphereQuat, force)

\* lines 170-230: the interpolation sub-steps not yet logged in st, up to steps
RECURSIVE StepLoop(_, _, _, _, _, _)
StepLoop(st, hasPrev, prevCursorWorld, cursorWorld, sphereQuat, force) ==
  IF Len(st.kicksThisStep) > steps THEN st
  ELSE LET s == Len(st.kicksThisStep)
           interpCursor ==
             IF hasPrev
             THEN lerpVec3(prevCursorWorld, cursorWorld, s, steps)
             ELSE cursorWorld
           done == DotLoop([st EXCEPT !.kicks = 0, !.zone = 0], 0, interpCursor,
                           cursorWorld, sphereQuat, force)
           logged == [done EXCEPT
                        !.kicksThisStep = Append(@, done.kicks),
                        !.zoneThisStep = Append(@, done.zone)]
       IN StepLoop(logged, hasPrev, prevCursorWorld, cursorWorld,
                   sphereQuat, force)

ResetUntouched_Mutant(timers, touched) == timers

\* lines 231-235: points not touched in any sub-step lose their hold timer
ResetUntouched(timers, touched) ==
  [i \in Points |-> IF touched[i] THEN timers[i] ELSE 0]

\* what spreadDots starts from: the arrays as `start` holds them, nothing observed
Untouched(start) ==
  [ spreadOffsets |-> start.spreadOffsets,
    spreadKickT |-> start.spreadKickT,
    spreadTimers |-> start.spreadTimers,
    spreadKickStart |-> spreadKickStart,
    spreadKickDir |-> spreadKickDir,
    touched |-> [i \in Points |-> FALSE],
    zeroDistBranch |-> [i \in Points |-> {}],
    bufferEases |-> [i \in Points |-> 0],
    boundaryDist |-> [i \in Points |-> {}],
    kicks |-> 0,
    zone |-> 0,
    kicksThisStep |-> <<>>,
    zoneThisStep |-> <<>> ]

\* the arrays of the field after spreadDots, run on the arrays in `start`
spreadDots(start, ptr, last, lastEvent, sphereQuat) ==
  LET cursorWorld == CursorWorld(ptr)
      hasPrev == last # NULL /\ lastEvent # NULL
      prevCursorWorld == IF hasPrev THEN CursorWorld(last) ELSE ZeroVec
      r == StepLoop(Untouched(start), hasPrev, prevCursorWorld, cursorWorld,
                    sphereQuat, Force(ptr, last))
  IN [r EXCEPT !.spreadTimers = ResetUntouched(r.spreadTimers, r.touched)]

-----------------------------------------------------------------------------
\* ParticleSphere construction

BLUE == <<1176, 5647, 10000>>

WHITE == <<10000, 10000, 10000>>

\* a / b is NaN, as JavaScript divides numbers, when both are 0
QuotientIsNaN(a, b) == a = 0 /\ b = 0

\* x % 1 of i * 1.618034
GoldenFraction(i) == ((i * GOLDEN_MICRO) % 1000000) \div 1000

\* lines 273-278: the Fibonacci-sphere position of point i
LatticePoint(i, count, radius) ==
  IF QuotientIsNaN(i, count - 1) THEN NaNVec
  ELSE LET q == RoundDiv(i * ONE, count - 1)
           y == ONE - q * 2
           r == SqrtFix(ONE - Mul(y, y))
           theta == Mul(TWO_PI, GoldenFraction(i))
           x == Mul(Cos(theta), r)
           z == Mul(Sin(theta), r)
       IN Vec(Mul(x, radius), Mul(y, radius), Mul(z, radius))

\* the arrays initParticles fills for the points 0 .. count - 1
RestArrays(count, orig) ==
  [ originalPositions |-> orig,
    positions |-> orig,
    spreadOffsets |-> [i \in 0 .. (count - 1) |-> ZeroVec],
    spreadTimers |-> [i \in 0 .. (count - 1) |-> 0],
    spreadKickT |-> [i \in 0 .. (count - 1) |-> ONE],
    spreadKickDir |-> [i \in 0 .. (count - 1) |-> ZeroVec],
    spreadKickStart |-> [i \in 0 .. (count - 1) |-> ZeroVec],
    colors |-> [i \in 0 .. (count - 1) |-> WHITE] ]

initParticles(count, radius) ==
  RestArrays(count, [i \in 0 .. (count - 1) |-> LatticePoint(i, count, radius)])

-----------------------------------------------------------------------------
\* ParticleInteractionService.update

\* line 27
EaseMorph(lerp, target) == lerp + RoundDiv((target - lerp) * MORPH_RATE, ONE)

\* lines 44-53: the radius the wave field gives point i at time t
FinalRadius(i, t, lerp) ==
  LET o == originalPositions[i]
      ux == RoundDiv(o.x * ONE, RADIUS)
      uy == RoundDiv(o.y * ONE, RADIUS)
      uz == RoundDiv(o.z * ONE, RADIUS)
      theta == Acos(clamp(uy, -ONE, ONE))
      phi == Atan2(uz, ux)
      wave1 == Sin(Mul(t.ms, 2) + theta * 5 + phi * 3)
      wave2 == Cos(Mul(t.ms, 1) + theta * 3 - phi * 2)
      ampRadius == Mul(RADIUS, 150)
      baseOffset == Mul(Mul(wave1 + wave2, 500), ampRadius)
      radOffset == Mul(baseOffset, lerp)
  IN RADIUS + radOffset

\* lines 54-56
FinalPosition(i, t, lerp, off) ==
  IF t.nan THEN NaNVec
  ELSE LET o == originalPositions[i]
           r == FinalRadius(i, t, lerp)
       IN Vec(Mul(RoundDiv(o.x * ONE, RADIUS), r) + off[i].x,
              Mul(RoundDiv(o.y * ONE, RADIUS), r) + off[i].y,
              Mul(RoundDiv(o.z * ONE, RADIUS), r) + off[i].z)

Flick_Mutant(t, i) == IF t.nan THEN FALSE ELSE Sin(Mul(t.ms, 10)) > 0

\* line 65: Math.sin(time * blinkSpeed + i) > 0
Flick(t, i) == IF t.nan THEN FALSE ELSE Sin(Mul(t.ms, 10) + i * ONE) > 0

\* lines 66-74
BlinkColor(t, i) == IF Flick(t, i) THEN BLUE ELSE WHITE

RunsSpreadDots_Mutant(ptr) == TRUE

\* line 28: whether update runs spreadDots
RunsSpreadDots(ptr) == ptr # NULL

\* lines 25 and 28-30: the arrays of the field after animateSpreadReturn and,
\* when there is a pointer, spreadDots with points.quaternion = sphereQuat
Interaction(sphereQuat) ==
  IF RunsSpreadDots(pointer)
  THEN spreadDots(animateSpreadReturn, pointer, lastPointer, lastPointerEvent,
                  sphereQuat)
  ELSE Untouched(animateSpreadReturn)

\* lines 24-77, called with the time and the closure variables of main.js;
\* r is Interaction(points.quaternion)
update(t, r) ==
  \E lerp \in {EaseMorph(morphLerp, morphTarget)} :
     /\ morphLerp' = lerp
     /\ UNCHANGED morphTarget
     /\ spreadOffsets' = r.spreadOffsets
     /\ spreadKickT' = r.spreadKickT
     /\ spreadTimers' = r.spreadTimers
     /\ spreadKickStart' = r.spreadKickStart
     /\ spreadKickDir' = r.spreadKickDir
     /\ positions' = [i \in Points |-> FinalPosition(i, t, lerp, r.spreadOffsets)]
     /\ colorArr' = [i \in Points |-> BlinkColor(t, i)]
     /\ touchedThisFrame' = r.touched
     /\ kicksThisStep' = r.kicksThisStep
     /\ zoneThisStep' = r.zoneThisStep
     /\ zeroDistBranch' = r.zeroDistBranch
     /\ bufferEases' = r.bufferEases
     /\ boundaryDist' = r.boundaryDist
     /\ heldAtStart' = [i \in Points |->
                          spreadKickT[i] = ONE /\ spreadTimers[i] > 0]
     /\ prevArgs' = args
     /\ args' = [pointer |-> pointer, lastPointer |-> lastPointer]
     /\ sampleUses' = IF RunsSpreadDots(pointer) THEN Min(sampleUses + 1, 2)
                      ELSE sampleUses

-----------------------------------------------------------------------------
\* main.js

\* lines 40-45: points.scale
Breath(t) ==
  IF ~enableMorph THEN Vec(ONE, ONE, ONE)
  ELSE IF t.nan THEN NaNVec
  ELSE LET breath == ONE + Mul(Sin(Mul(t.ms, 1)), 50)
       IN Vec(breath, breath, breath)

\* the timestamps animate may be called with: line 57 calls it with none,
\* requestAnimationFrame with the frame's time
FrameTimes == IF ~started THEN {Undefined} ELSE Times

\* lines 35-56: one animation frame, called with one of FrameTimes.  The
\* sphere's rotation advances by 0.002 rad a frame; on the quarter-turn
\* lattice it stays or moves on by one
animate(turn) ==
  /\ rotationY' = rotationY + turn
  /\ started' = TRUE
  /\ UNCHANGED <<pointer, lastPointer, lastPointerEvent, enableMorph, DOT_COUNT,
                 RADIUS, originalPositions, moves>>
  /\ \E r \in {Interaction(rotationY + turn)}, t \in FrameTimes :
       /\ scale' = Breath(t)
       /\ time' = t
       /\ update(t, r)

Frame ==
  \E turn \in {0, 1} :
    /\ rotationY + turn <= MaxTurns
    /\ animate(turn)

\* lines 60-65: the pointermove listener, registered after the first frame
PointerMove ==
  \E p \in Pointers :
    /\ started
    /\ moves < MaxMoves
    /\ lastPointer' = pointer
    /\ pointer' = p
    /\ lastPointerEvent' = p
    /\ moves' = moves + 1
    /\ sampleUses' = 0
    /\ UNCHANGED <<enableMorph, rotationY, scale, time, started, morphLerp, morphTarget,
                   DOT_COUNT, RADIUS, originalPositions, spreadOffsets,
                   spreadTimers, spreadKickT, spreadKickDir, spreadKickStart,
                   positions, colorArr, touchedThisFrame, kicksThisStep,
                   zoneThisStep, zeroDistBranch, bufferEases, args, prevArgs,
                   heldAtStart, boundaryDist>>

\* lines 25-27: the change listener of the morph toggle
MorphToggle ==
  /\ started
  /\ enableMorph' = ~enableMorph
  /\ UNCHANGED <<pointer, lastPointer, lastPointerEvent, rotationY, scale, time,
                 started, morphLerp, morphTarget, DOT_COUNT, RADIUS, originalPositions,
                 spreadOffsets, spreadTimers, spreadKickT, spreadKickDir,
                 spreadKickStart, positions, colorArr, touchedThisFrame,
                 kicksThisStep, zoneThisStep, zeroDistBranch, bufferEases, args,
                 prevArgs, sampleUses, moves, heldAtStart, boundaryDist>>

NoArgs == [pointer |-> NULL, lastPointer |-> NULL]

\* the state when main.js has built the service on the field, just before
\* line 57 starts the loop
Init ==
  LET f == RestArrays(DotCount, [i \in 0 .. (DotCount - 1) |-> Field[i + 1]])
  IN /\ pointer = NULL
     /\ lastPointer = NULL
     /\ lastPointerEvent = NULL
     /\ enableMorph \in BOOLEAN
     /\ rotationY = 0
     /\ scale = Vec(ONE, ONE, ONE)
     /\ time = Undefined
     /\ started = FALSE
     /\ morphLerp = ONE
     /\ morphTarget = ONE
     /\ DOT_COUNT = DotCount
     /\ RADIUS = DEFAULT_RADIUS
     /\ originalPositions = f.originalPositions
     /\ spreadOffsets = f.spreadOffsets
     /\ spreadTimers = f.spreadTimers
     /\ spreadKickT = f.spreadKickT
     /\ spreadKickDir = f.spreadKickDir
     /\ spreadKickStart = f.spreadKickStart
     /\ positions = f.positions
     /\ colorArr = f.colors
     /\ touchedThisFrame = [i \in 0 .. (DotCount - 1) |-> FALSE]
     /\ kicksThisStep = <<>>
     /\ zoneThisStep = <<>>
     /\ zeroDistBranch = [i \in 0 .. (DotCount - 1) |-> {}]
     /\ bufferEases = [i \in 0 .. (DotCount - 1) |-> 0]
     /\ args = NoArgs
     /\ prevArgs = NoArgs
     /\ sampleUses = 0
     /\ moves = 0
     /\ heldAtStart = [i \in 0 .. (DotCount - 1) |-> FALSE]
     /\ boundaryDist = [i \in 0 .. (DotCount - 1) |-> {}]

Next == Frame \/ PointerMove \/ MorphToggle

Spec == Init /\ [][Next]_vars

\* the steps of Next that are frames: the two listeners change moves or
\* enableMorph, a frame changes neither
FrameStep == moves' = moves /\ enableMorph' = enableMorph

\* line 36: every frame asks requestAnimationFrame for the next one, so
\* frames keep coming.  A frame is possible in every state (the sphere may
\* stay on its quarter turn, and there is a timestamp other than the last),
\* so weak fairness of Frame is that frame steps happen again and again
FairSpec == Spec /\ []<><<FrameStep>>_vars

-----------------------------------------------------------------------------
\* Construction on its own: new ParticleSphere({dotCount, radius})

\* the radii handed to the constructor
Radii == {ONE, DEFAULT_RADIUS, 3 * ONE, 4 * ONE, 5 * ONE}

Constructed == DOMAIN originalPositions # {}

\* lines 252-266: the constructor has set the fields and not yet run
\* initParticles
InitNew ==
  /\ DOT_COUNT \in 1 .. MaxInitCount
  /\ RADIUS \in Radii
  /\ originalPositions = <<>>
  /\ positions = <<>>
  /\ spreadOffsets = <<>>
  /\ spreadTimers = <<>>
  /\ spreadKickT = <<>>
  /\ spreadKickDir = <<>>
  /\ spreadKickStart = <<>>
  /\ colorArr = <<>>
  /\ pointer = NULL
  /\ lastPointer = NULL
  /\ lastPointerEvent = NULL
  /\ enableMorph = TRUE
  /\ rotationY = 0
  /\ scale = Vec(ONE, ONE, ONE)
  /\ time = Undefined
  /\ started = FALSE
  /\ morphLerp = ONE
  /\ morphTarget = ONE
  /\ touchedThisFrame = <<>>
  /\ kicksThisStep = <<>>
  /\ zoneThisStep = <<>>
  /\ zeroDistBranch = <<>>
  /\ bufferEases = <<>>
  /\ args = NoArgs
  /\ prevArgs = NoArgs
  /\ sampleUses = 0
  /\ moves = 0
  /\ heldAtStart = <<>>
  /\ boundaryDist = <<>>

\* line 267: this.initParticles()
InitParticles ==
  /\ ~Constructed
  /\ \E f \in {initParticles(DOT_COUNT, RADIUS)} :
       /\ originalPositions' = f.originalPositions
       /\ positions' = f.positions
       /\ spreadOffsets' = f.spreadOffsets
       /\ spreadTimers' = f.spreadTimers
       /\ spreadKickT' = f.spreadKickT
       /\ spreadKickDir' = f.spreadKickDir
       /\ spreadKickStart' = f.spreadKickStart
       /\ colorArr' = f.colors
  /\ UNCHANGED <<pointer, lastPointer, lastPointerEvent, enableMorph, rotationY,
                 scale, time, started, morphLerp, morphTarget, DOT_COUNT, RADIUS,
                 touchedThisFrame, kicksThisStep, zoneThisStep, zeroDistBranch,
                 bufferEases, args, prevArgs, sampleUses, moves, heldAtStart,
                 boundaryDist>>

SpecConstruct == InitNew /\ [][InitParticles]_vars

-----------------------------------------------------------------------------
\* Properties

\* the force of the pointer delta the last update() was called with
LastForce == Force(args.pointer, args.lastPointer)

\* the resolution of the fixed-point return lerp: a component this small is
\* within rounding of zero
Epsilon == ONE \div (2 * RETURN_RATE) + 1

Small(v) == Abs(v.x) <= Epsilon /\ Abs(v.y) <= Epsilon /\ Abs(v.z) <= Epsilon

\* C1: at every frame boundary each point is in exactly one regime: no point
\* has kickProgress (spreadKickT) < 1 and returnTimer (spreadTimers) > 0 at
\* the same time.
C1_OneRegime ==
  \A i \in Points : ~(spreadKickT[i] < ONE /\ spreadTimers[i] > 0)

\* C2: a pointer sample is consumed by at most one simulation step: after a
\* pointermove event at most one frame runs spreadDots on that sample.
C2_SampleUsedOnce == sampleUses <= 1

\* C3: in every frame that runs while the host's morph-enabled flag is false,
\* morphLerp moves 5% of the remaining gap toward 0.
C3_MorphFollowsFlag ==
  [][(FrameStep /\ ~enableMorph) => morphLerp' = EaseMorph(morphLerp, 0)]_vars

\* C4: the kickProgress of a point observed from one frame to the next never
\* goes down while it is below 1: nothing lowers or resets a running kick.
C4_KickMonotone ==
  [][\A i \in Points :
       spreadKickT[i] < ONE => spreadKickT'[i] >= spreadKickT[i]]_vars

\* C5: every interpolation sub-step of a frame issues at most 2 new kicks;
\* of the non-kicking points inside the exclusion radius with force > 0.5,
\* the first 2 are kicked and the others are snapped.
C5_KickCap ==
  \A s \in 1 .. Len(kicksThisStep) :
    /\ kicksThisStep[s] <= MAX_KICKS_PER_STEP
    /\ kicksThisStep[s] =
         IF LastForce > KICK_THRESHOLD
         THEN Min(MAX_KICKS_PER_STEP, zoneThisStep[s]) ELSE 0

\* a sub-step in which more points qualified than the cap lets kick
C5_Witness ==
  \E s \in 1 .. Len(kicksThisStep) :
    /\ LastForce > KICK_THRESHOLD
    /\ zoneThisStep[s] > MAX_KICKS_PER_STEP
    /\ kicksThisStep[s] = MAX_KICKS_PER_STEP

\* C6: a point that from some frame on is touched by neither the exclusion
\* zone nor the soft buffer band ends with its kick complete, its timer at 0
\* and its offset within epsilon of zero, and stays so; and every frame that
\* leaves a point at rest untouched shrinks each component of its offset by
\* 3% (to the rounding of the fixed-point arithmetic), never increasing its
\* magnitude.
C6_ReturnsHome ==
  /\ \A i \in 0 .. (DotCount - 1) :
       <>[](~touchedThisFrame[i])
         => <>[](/\ spreadKickT[i] = ONE
                 /\ spreadTimers[i] = 0
                 /\ Small(spreadOffsets[i]))
  /\ [][\A i \in Points :
          (spreadKickT[i] = ONE /\ spreadTimers[i] = 0 /\ FrameStep
             /\ ~touchedThisFrame'[i])
            => \A c \in {<<spreadOffsets[i].x, spreadOffsets'[i].x>>,
                          <<spreadOffsets[i].y, spreadOffsets'[i].y>>,
                          <<spreadOffsets[i].z, spreadOffsets'[i].z>>} :
                 /\ Abs(c[2]) <= Abs(c[1])
                 /\ Abs(100 * (c[1] - c[2]) - 3 * c[1]) <= 50]_vars

\* a point that was kicked off the exclusion boundary, is no longer touched
\* and has come back to within epsilon of home
C6_Witness ==
  \E i \in Points :
    /\ spreadKickStart[i] # ZeroVec
    /\ spreadKickT[i] = ONE
    /\ ~touchedThisFrame[i]
    /\ Small(spreadOffsets[i])
    /\ spreadOffsets[i] # ZeroVec

\* C7: in every frame that interpolates a cursor path, the previous pointer
\* sample passed to the step is the sample that was the current one in the
\* preceding frame.
C7_PathContiguous ==
  (args.pointer # NULL /\ args.lastPointer # NULL)
    => args.lastPointer = prevArgs.pointer

\* C8: a non-kicking point whose rotated original position coincides with
\* the cursor sample of a sub-step takes the exclusion-zone branch in that
\* sub-step, never the soft-buffer branch and never none.
C8_ZeroDistanceExcluded ==
  \A i \in Points : zeroDistBranch[i] \subseteq {"exclusion"}

\* a point coincided with a cursor sample and was touched by the exclusion zone
C8_Witness ==
  \E i \in Points : "exclusion" \in zeroDistBranch[i] /\ touchedThisFrame[i]

\* C9: a field constructed with count = 1 and radius = 1 has one point whose
\* position is (0, 1, 0) up to tolerance, a well-defined number.
C9_SinglePoint ==
  (Constructed /\ DOT_COUNT = 1 /\ RADIUS = ONE)
    => /\ ~originalPositions[0].nan
       /\ Abs(originalPositions[0].x) <= 1
       /\ Abs(originalPositions[0].y - ONE) <= 1
       /\ Abs(originalPositions[0].z) <= 1

\* C10: after every update() each point's colour is blue or white, blue
\* exactly when sin(time * 0.01 + index) > 0, whatever the pointer history,
\* the rotation and the morph flag: the colour buffer is a function of the
\* frame time alone.
C10_BlinkByTime ==
  started =>
    \A i \in Points :
      LET a == (Mul(time.ms, 10) + i * ONE) % TWO_PI
      IN colorArr[i] = IF ~time.nan /\ 0 < a /\ a < PI THEN BLUE ELSE WHITE

\* a frame at a defined time, after pointer events and a turn of the sphere,
\* that shows both colours
C10_Witness ==
  /\ started
  /\ ~time.nan
  /\ pointer # NULL
  /\ rotationY > 0
  /\ \E i, j \in Points : colorArr[i] = BLUE /\ colorArr[j] = WHITE

\* C11 as stated: a Held point (kickProgress 1, returnTimer > 0) that a frame
\* does not touch keeps counting its timer down by 0.017 (floored at 0) in
\* that frame, and its offset is left alone.
C11_HeldCountsDown ==
  [][\A i \in Points :
       (FrameStep /\ spreadKickT[i] = ONE /\ spreadTimers[i] > 0
          /\ ~touchedThisFrame'[i])
         => /\ spreadTimers'[i] = Max(0, spreadTimers[i] - TIMER_STEP)
            /\ spreadOffsets'[i] = spreadOffsets[i]]_vars

\* C11 amended: a Held point that a frame does not touch has its returnTimer
\* reset to 0 by that frame; the frame leaves its offset alone, so the
\* return-to-home lerp does not begin while the timer is above 0.
C11_UntouchedHoldEnds ==
  [][\A i \in Points :
       (FrameStep /\ spreadKickT[i] = ONE /\ spreadTimers[i] > 0
          /\ ~touchedThisFrame'[i])
         => /\ spreadTimers'[i] = 0
            /\ spreadKickT'[i] = ONE
            /\ spreadOffsets'[i] = spreadOffsets[i]]_vars

\* a point the soft buffer band had put on hold went through a frame that
\* did not touch it
C11_Witness ==
  \E i \in Points :
    /\ heldAtStart[i]
    /\ ~touchedThisFrame[i]
    /\ spreadOffsets[i] # ZeroVec
    /\ spreadKickStart[i] = ZeroVec

\* C12: a point the soft buffer band touched in the last frame got one 18%
\* easing of its offset in that frame, with or without a previous pointer
\* sample, and the frame left its returnTimer at 0.4.
C12_OneEasePerFrame ==
  \A i \in Points :
    bufferEases[i] > 0 => bufferEases[i] = 1 /\ spreadTimers[i] = HOLD_TIME

\* C13: a point whose kickProgress reaches 1 during a frame has kickProgress 1
\* when the next frame starts: the update() in which its kick completes does
\* not kick it again.
C13_NoRekickOnCompletion ==
  [][\A i \in Points :
       (FrameStep /\ spreadKickT[i] < ONE /\ spreadKickT[i] + KICK_STEP >= ONE)
         => spreadKickT'[i] = ONE]_vars

\* C14: every frame advances a running kick by 0.035, clamped to 1, so a
\* kick ends 29 frames after it began, whatever happens in between; and the
\* frame that ends it leaves the offset at kickStart + kickDirection.
C14_KickTerminates ==
  [][\A i \in Points :
       (FrameStep /\ spreadKickT[i] < ONE)
         => /\ spreadKickT'[i] = Min(ONE, spreadKickT[i] + KICK_STEP)
            /\ spreadKickT'[i] = ONE
                 => spreadOffsets'[i] =
                      VAdd(spreadKickStart[i], spreadKickDir[i])]_vars

\* C15: after every sub-step that found a non-kicking point inside the
\* exclusion zone, the point's displaced position (original position plus
\* offset, rotated) is CURSOR_RADIUS + 0.001 away from that sub-step's cursor
\* sample, to the rounding of the arithmetic, and never inside the zone.
C15_SnappedOntoBoundary ==
  \A i \in Points :
    \A d \in boundaryDist[i] :
      /\ d >= CURSOR_RADIUS
      /\ Abs(d - (CURSOR_RADIUS + SURFACE_EPS)) <= 2

\* C16: a point that is still Kicking after animateSpreadReturn is left alone
\* by the spreadDots of that frame, wherever the cursor is: its kickProgress,
\* kickStart, kickDirection and offset end the frame as animateSpreadReturn
\* left them and it is not touched; its returnTimer alone may change, to 0.
C16_KickingLeftAlone ==
  [][\A i \in Points :
       (FrameStep /\ spreadKickT[i] + KICK_STEP < ONE)
         => /\ spreadKickT'[i] = spreadKickT[i] + KICK_STEP
            /\ spreadKickStart'[i] = spreadKickStart[i]
            /\ spreadKickDir'[i] = spreadKickDir[i]
            /\ spreadOffsets'[i] =
                 KickOffset(spreadKickStart[i], spreadKickDir[i],
                            spreadKickT[i] + KICK_STEP)
            /\ ~touchedThisFrame'[i]
            /\ spreadTimers'[i] \in {spreadTimers[i], 0}
            /\ pointer # NULL => spreadTimers'[i] = 0]_vars

\* the last frame ran spreadDots with the cursor inside the exclusion
\* radius of a point that was in the middle of its kick
C16_Witness ==
  \E i \in Points :
    /\ KICK_STEP < spreadKickT[i] /\ spreadKickT[i] < ONE
    /\ pointer # NULL /\ args.pointer = pointer
    /\ LET toCursor == VSub(ApplyQuaternion(originalPositions[i], rotationY),
                            CursorWorld(pointer))
       IN InExclusionZone(Dot(toCursor, toCursor))
    /\ ~touchedThisFrame[i]

\* C17: a point the last frame kicked (kickProgress 0) was kicked by a force
\* above 1.0, and its kickDirection has a length that is strictly positive
\* and at most 0.7 * RADIUS.
C17_KickNeedsForce ==
  \A i \in Points :
    spreadKickT[i] = 0
      => /\ LastForce > FORCE_OFFSET
         /\ spreadKickDir[i] # ZeroVec
         /\ Length(spreadKickDir[i]) <= Mul(RADIUS, SPREAD_GAIN) + 1

\* C18: in every reachable state, for every point, 0 <= kickProgress <= 1 and
\* 0 <= returnTimer <= 0.4.
C18_Ranges ==
  \A i \in Points :
    /\ 0 <= spreadKickT[i] /\ spreadKickT[i] <= ONE
    /\ 0 <= spreadTimers[i] /\ spreadTimers[i] <= HOLD_TIME

\* both quantities in use at once: one point is in a kick while another
\* carries the full hold timer
C18_Witness ==
  \E i, j \in Points :
    /\ spreadKickT[i] < ONE
    /\ spreadTimers[j] = HOLD_TIME

\* C19: while the pointer is null, whatever the number of frames, every point
\* is at rest (zero offset, kickProgress 1, returnTimer 0) and spreadDots has
\* not been run: no sub-step, no kick, no sample consumed, no point touched.
C19_RestWithoutPointer ==
  pointer = NULL
    => /\ \A i \in Points :
            /\ spreadOffsets[i] = ZeroVec
            /\ spreadKickT[i] = ONE
            /\ spreadTimers[i] = 0
            /\ spreadKickStart[i] = ZeroVec
            /\ spreadKickDir[i] = ZeroVec
            /\ ~touchedThisFrame[i]
            /\ bufferEases[i] = 0
            /\ boundaryDist[i] = {}
       /\ kicksThisStep = <<>>
       /\ zoneThisStep = <<>>
       /\ sampleUses = 0

\* at least two frames have run (the second one set the time) and the sphere
\* has turned, with no pointermove yet
C19_Witness ==
  /\ pointer = NULL
  /\ started
  /\ ~time.nan
  /\ rotationY > 0

\* C20: no kick is issued before two pointermove events.  While the previous
\* sample is null no point is or has been kicked, and the frame that ran
\* spreadDots with a null previous sample had force 0, kicked nothing and
\* snapped what it touched; the kickProgress of a point leaves 1 only in a
\* frame that has both samples and a pointer speed above 2.5 px (force > 0.5).
C20_NoKickBeforeTwoMoves ==
  /\ [](lastPointer = NULL
          => \A i \in Points :
               /\ spreadKickT[i] = ONE
               /\ spreadKickStart[i] = ZeroVec
               /\ spreadKickDir[i] = ZeroVec)
  /\ [](args.lastPointer = NULL
          => /\ LastForce = 0
             /\ \A k \in 1 .. Len(kicksThisStep) : kicksThisStep[k] = 0
             /\ \A i \in Points : spreadKickT[i] = ONE)
  /\ [][\A i \in Points :
          (spreadKickT[i] = ONE /\ spreadKickT'[i] < ONE)
            => /\ FrameStep
               /\ pointer # NULL
               /\ lastPointer # NULL
               /\ Force(pointer, lastPointer) > KICK_THRESHOLD]_vars

\* a frame ran spreadDots on the first sample alone and snapped a point out of
\* the exclusion zone without kicking it
C20_Witness ==
  /\ args.pointer # NULL
  /\ args.lastPointer = NULL
  /\ \E i \in Points :
       /\ touchedThisFrame[i]
       /\ boundaryDist[i] # {}
       /\ spreadOffsets[i] # ZeroVec
       /\ spreadKickT[i] = ONE

====
